---- MODULE Spec2Model ----
(***************************************************************************)
(* Remote distance oracle client (src/lib/api.js) and the trust score      *)
(* calculation (src/unnamed/part_000).                                     *)
(*                                                                         *)
(* Spec       the RemoteOracle operations, several of them in flight at    *)
(*            once on the single-threaded event loop, each one stepping    *)
(*            from await to await.                                         *)
(* ScoreSpec  calculateScore applied to inputs drawn from bounded sets.    *)
(*                                                                         *)
(* Scores, weights and bonuses are exact numbers in hundredths (1.0 is     *)
(* 100); the source computes them in IEEE doubles, whose rounding is not   *)
(* modelled.                                                               *)
(***************************************************************************)
EXTENDS Integers, Sequences, FiniteSets, TLC

VARIABLES
    op,         \* per call slot: the RemoteOracle method running in it
    pc,         \* per call slot: "idle", "fetch" (at await fetch), "json" (at res.json()), "done"
    res,        \* per call slot: what fetch settled with
    body,       \* per call slot: what res.json() settled with
    outcome,    \* per call slot: what the method's promise settled with
    yields,     \* per call slot: how often the call gave control back before completing
    decoded,    \* per call slot: whether res.json() was called
    in_hops,    \* calculateScore: argument hops
    in_paths,   \* calculateScore: argument paths
    in_scoring, \* calculateScore: argument scoring
    score,      \* calculateScore: the returned value
    spc         \* calculateScore: "call" before, "done" after ("idle" when not in use)

vars == <<op, pc, res, body, outcome, yields, decoded,
          in_hops, in_paths, in_scoring, score, spc>>
clientVars == <<op, pc, res, body, outcome, yields, decoded>>
scoreVars == <<in_hops, in_paths, in_scoring, score, spc>>

-----------------------------------------------------------------------------
(* Bounds of the model *)

NumCalls == 2       \* call slots: operations that can be in flight together
MaxHops == 6        \* largest hops argument given to calculateScore
MaxPaths == 12      \* largest paths argument given to calculateScore

-----------------------------------------------------------------------------
(* JavaScript values: one record shape for every value.                    *)
(*   k  the kind; n  the number (for "int"); s  the characters (for        *)
(*   "string"); e  the elements (for "array") or the <<key, value>>        *)
(*   entries in insertion order (for "object").                            *)
(* "frac" is a number that is not an integer (1.5), "malformed" a body     *)
(* that is no JSON at all.                                                 *)

JsVal(k, n, s, e) == [k |-> k, n |-> n, s |-> s, e |-> e]
Undefined == JsVal("undefined", 0, <<>>, <<>>)
Null == JsVal("null", 0, <<>>, <<>>)
Num(n) == JsVal("int", n, <<>>, <<>>)
Frac == JsVal("frac", 1, <<>>, <<>>)
Bool(b) == JsVal("boolean", IF b THEN 1 ELSE 0, <<>>, <<>>)
Str(s) == JsVal("string", 0, s, <<>>)
Arr(e) == JsVal("array", 0, <<>>, e)
Obj(e) == JsVal("object", 0, <<>>, e)
Malformed == JsVal("malformed", 0, <<>>, <<>>)

\* typeof data === 'object' && data !== null
IsObject(data) == data.k \in {"object", "array"}

\* Array.isArray(x)
IsArray(x) == x.k = "array"

DecimalDigits == <<"0", "1", "2", "3", "4", "5", "6", "7", "8", "9">>

\* Object.entries(data): an object's own entries; an array's elements under
\* their indices written as strings
Entries(data) ==
    IF data.k = "object" THEN data.e
    ELSE IF data.k = "array"
         THEN [i \in 1..Len(data.e) |-> <<<<DecimalDigits[i]>>, data.e[i]>>]
         ELSE <<>>

\* data.name: the value of the property, undefined when there is none
Get(data, name) ==
    IF data.k = "object" /\ \E i \in 1..Len(data.e) : data.e[i][1] = name
    THEN data.e[CHOOSE i \in 1..Len(data.e) : data.e[i][1] = name][2]
    ELSE Undefined

\* x ?? d
Coalesce(x, d) == IF x.k \in {"null", "undefined"} THEN d ELSE x

K_hops == <<"h", "o", "p", "s">>
K_paths == <<"p", "a", "t", "h", "s">>
K_bridges == <<"b", "r", "i", "d", "g", "e", "s">>
K_follows == <<"f", "o", "l", "l", "o", "w", "s">>
K_common == <<"c", "o", "m", "m", "o", "n">>
K_path == <<"p", "a", "t", "h">>

-----------------------------------------------------------------------------
(* Validation helpers for oracle responses *)

PubkeyLen == 64
HopsLimit == 100
HexChars == {"0", "1", "2", "3", "4", "5", "6", "7", "8", "9",
             "a", "b", "c", "d", "e", "f", "A", "B", "C", "D", "E", "F"}

\* typeof pubkey === 'string' && /^[a-f0-9]{64}$/i.test(pubkey)
isValidPubkey(pubkey) ==
    /\ pubkey.k = "string"
    /\ Len(pubkey.s) = PubkeyLen
    /\ \A i \in 1..Len(pubkey.s) : pubkey.s[i] \in HexChars

isValidHops_noUpperBound(hops) ==
    hops.k = "null" \/ (hops.k = "int" /\ hops.n >= 0)

isValidHops(hops) ==
    hops.k = "null" \/ (hops.k = "int" /\ hops.n >= 0 /\ hops.n <= HopsLimit)

isValidPaths(paths) ==
    paths.k \in {"null", "undefined"} \/ (paths.k = "int" /\ paths.n >= 0)

\* The validators throw or return data: the value here is the message of the
\* Error thrown, "" when data is returned.
validateDistanceResponse(data) ==
    IF ~IsObject(data) THEN "Invalid oracle response: expected object"
    ELSE IF ~isValidHops(Get(data, K_hops))
    THEN "Invalid oracle response: hops must be null or a non-negative integer"
    ELSE IF Get(data, K_paths).k # "undefined" /\ ~isValidPaths(Get(data, K_paths))
    THEN "Invalid oracle response: paths must be null or a non-negative integer"
    ELSE ""

RECURSIVE BatchEntriesFrom(_, _)
\* the for loop over Object.entries(data), from entry i on
BatchEntriesFrom(ents, i) ==
    IF i > Len(ents) THEN ""
    ELSE IF ~isValidPubkey(Str(ents[i][1]))
    THEN "Invalid oracle batch response: invalid pubkey"
    ELSE IF ~isValidHops(ents[i][2])
    THEN "Invalid oracle batch response: invalid hops for"
    ELSE BatchEntriesFrom(ents, i + 1)

validateBatchResponse(data) ==
    IF ~IsObject(data) THEN "Invalid oracle batch response: expected object"
    ELSE BatchEntriesFrom(Entries(data), 1)

RECURSIVE PubkeysFrom(_, _, _)
\* the for loop over an array of pubkeys, from element i on
PubkeysFrom(list, i, msg) ==
    IF i > Len(list) THEN ""
    ELSE IF ~isValidPubkey(list[i]) THEN msg
    ELSE PubkeysFrom(list, i + 1, msg)

validateFollowsResponse(data) ==
    IF ~IsObject(data) THEN "Invalid oracle follows response: expected object"
    ELSE IF ~IsArray(Get(data, K_follows))
    THEN "Invalid oracle follows response: follows must be an array"
    ELSE PubkeysFrom(Get(data, K_follows).e, 1,
                     "Invalid oracle follows response: invalid pubkey")

validateCommonFollowsResponse(data) ==
    IF ~IsObject(data) THEN "Invalid oracle common-follows response: expected object"
    ELSE IF ~IsArray(Get(data, K_common))
    THEN "Invalid oracle common-follows response: common must be an array"
    ELSE PubkeysFrom(Get(data, K_common).e, 1,
                     "Invalid oracle common-follows response: invalid pubkey")

validatePathResponse(data) ==
    IF ~IsObject(data) THEN "Invalid oracle path response: expected object"
    ELSE IF Get(data, K_path).k # "null" /\ ~IsArray(Get(data, K_path))
    THEN "Invalid oracle path response: path must be null or an array"
    ELSE IF IsArray(Get(data, K_path))
    THEN PubkeysFrom(Get(data, K_path).e, 1,
                     "Invalid oracle path response: invalid pubkey")
    ELSE ""

-----------------------------------------------------------------------------
(* What a RemoteOracle method does with a settled await: it returns, it    *)
(* throws, or it goes on to res.json().                                    *)

Settled(kind, err, msg, status, value) ==
    [kind |-> kind, err |-> err, msg |-> msg, status |-> status, value |-> value]
Pending == Settled("pending", "", "", 0, Undefined)
AwaitJson == Settled("await", "", "", 0, Undefined)
Return(value) == Settled("value", "", "", 0, value)
\* throw new Error(`${msg}${status}`)
ThrowStatus(msg, status) == Settled("error", "oracle", msg, status, Undefined)
\* the Error a validator throws
ThrowValidation(msg) == Settled("error", "validation", msg, 0, Undefined)
\* the rejection of fetch (network failure) passing through the await
ThrowNetwork == Settled("error", "network", "", 0, Undefined)
\* the rejection of res.json() (the body is no JSON) passing through the await
ThrowDecode == Settled("error", "decode", "", 0, Undefined)

\* what fetch settled with
NoResponse == [state |-> "none", status |-> 0]
Response(status) == [state |-> "fulfilled", status |-> status]
Rejected == [state |-> "rejected", status |-> 0]

\* res.ok
ok(r) == r.status >= 200 /\ r.status <= 299

getDistance_afterFetch(r) ==
    IF ~ok(r)
    THEN IF r.status = 404 THEN Return(Null)
         ELSE ThrowStatus("Oracle error: ", r.status)
    ELSE AwaitJson

getDistance_afterJson(data) ==
    IF data.k = "malformed" THEN ThrowDecode
    ELSE IF validateDistanceResponse(data) # ""
    THEN ThrowValidation(validateDistanceResponse(data))
    ELSE Return(Coalesce(Get(data, K_hops), Null))

getDistanceInfo_afterFetch(r) ==
    IF ~ok(r)
    THEN IF r.status = 404 THEN Return(Null)
         ELSE ThrowStatus("Oracle error: ", r.status)
    ELSE AwaitJson

getDistanceInfo_afterJson(data) ==
    IF data.k = "malformed" THEN ThrowDecode
    ELSE IF validateDistanceResponse(data) # ""
    THEN ThrowValidation(validateDistanceResponse(data))
    ELSE Return(data)

getDistanceBatch_nullOn404(r) ==
    IF ~ok(r)
    THEN IF r.status = 404 THEN Return(Null)
         ELSE ThrowStatus("Oracle batch error: ", r.status)
    ELSE AwaitJson

getDistanceBatch_afterFetch(r) ==
    IF ~ok(r) THEN ThrowStatus("Oracle batch error: ", r.status)
    ELSE AwaitJson

getDistanceBatch_afterJson(data) ==
    IF data.k = "malformed" THEN ThrowDecode
    ELSE IF validateBatchResponse(data) # ""
    THEN ThrowValidation(validateBatchResponse(data))
    ELSE Return(data)

getStats_afterFetch(r) ==
    IF ~ok(r) THEN ThrowStatus("Oracle stats error: ", r.status)
    ELSE AwaitJson

\* return res.json(): the method's promise settles as the promise of res.json() does
getStats_afterJson(data) ==
    IF data.k = "malformed" THEN ThrowDecode ELSE Return(data)

isHealthy_decodes(r) ==
    IF ok(r) THEN AwaitJson ELSE Return(Bool(FALSE))

isHealthy_afterFetch(r) == Return(Bool(ok(r)))

isHealthy_noCatch == ThrowNetwork

\* catch { return false }
isHealthy_afterReject == Return(Bool(FALSE))

getFollows_throwsOn404(r) ==
    IF ~ok(r) THEN ThrowStatus("Oracle follows error: ", r.status)
    ELSE AwaitJson

getFollows_afterFetch(r) ==
    IF ~ok(r)
    THEN IF r.status = 404 THEN Return(Arr(<<>>))
         ELSE ThrowStatus("Oracle follows error: ", r.status)
    ELSE AwaitJson

getFollows_afterJson(data) ==
    IF data.k = "malformed" THEN ThrowDecode
    ELSE IF validateFollowsResponse(data) # ""
    THEN ThrowValidation(validateFollowsResponse(data))
    ELSE Return(Coalesce(Get(data, K_follows), Arr(<<>>)))

getCommonFollows_afterFetch(r) ==
    IF ~ok(r)
    THEN IF r.status = 404 THEN Return(Arr(<<>>))
         ELSE ThrowStatus("Oracle common-follows error: ", r.status)
    ELSE AwaitJson

getCommonFollows_afterJson(data) ==
    IF data.k = "malformed" THEN ThrowDecode
    ELSE IF validateCommonFollowsResponse(data) # ""
    THEN ThrowValidation(validateCommonFollowsResponse(data))
    ELSE Return(Coalesce(Get(data, K_common), Arr(<<>>)))

getPath_afterFetch(r) ==
    IF ~ok(r)
    THEN IF r.status = 404 THEN Return(Null)
         ELSE ThrowStatus("Oracle path error: ", r.status)
    ELSE AwaitJson

getPath_afterJson(data) ==
    IF data.k = "malformed" THEN ThrowDecode
    ELSE IF validatePathResponse(data) # ""
    THEN ThrowValidation(validatePathResponse(data))
    ELSE Return(Coalesce(Get(data, K_path), Null))

Methods == {"getDistance", "getDistanceInfo", "getDistanceBatch", "getStats",
            "isHealthy", "getFollows", "getCommonFollows", "getPath"}

\* the method's code from the settling of fetch to its next await or its end
afterFetch(m, r) ==
    CASE m = "getDistance" -> getDistance_afterFetch(r)
      [] m = "getDistanceInfo" -> getDistanceInfo_afterFetch(r)
      [] m = "getDistanceBatch" -> getDistanceBatch_afterFetch(r)
      [] m = "getStats" -> getStats_afterFetch(r)
      [] m = "isHealthy" -> isHealthy_afterFetch(r)
      [] m = "getFollows" -> getFollows_afterFetch(r)
      [] m = "getCommonFollows" -> getCommonFollows_afterFetch(r)
      [] m = "getPath" -> getPath_afterFetch(r)

\* the method's code when fetch rejects: only isHealthy has a catch
afterReject(m) ==
    IF m = "isHealthy" THEN isHealthy_afterReject ELSE ThrowNetwork

\* the method's code from the settling of res.json() to its end (isHealthy
\* never calls res.json(): OTHER is not reached by the methods as written)
afterJson(m, data) ==
    CASE m = "getDistance" -> getDistance_afterJson(data)
      [] m = "getDistanceInfo" -> getDistanceInfo_afterJson(data)
      [] m = "getDistanceBatch" -> getDistanceBatch_afterJson(data)
      [] m = "getStats" -> getStats_afterJson(data)
      [] m = "getFollows" -> getFollows_afterJson(data)
      [] m = "getCommonFollows" -> getCommonFollows_afterJson(data)
      [] m = "getPath" -> getPath_afterJson(data)
      [] OTHER -> Return(data)

-----------------------------------------------------------------------------
(* What the transport can answer *)

Statuses == {200, 299, 300, 404, 500}

pkLower == [i \in 1..PubkeyLen |-> "a"]
pkUpper == [i \in 1..PubkeyLen |-> IF i % 2 = 1 THEN "F" ELSE "9"]
pkShort == [i \in 1..(PubkeyLen - 1) |-> "a"]
pkLong == [i \in 1..(PubkeyLen + 1) |-> "a"]
pkNonHex == [i \in 1..PubkeyLen |-> IF i = PubkeyLen THEN "g" ELSE "0"]

HopsFields == {Null, Num(0), Num(HopsLimit), Num(HopsLimit + 1), Num(-1), Frac}
PathsFields == {Null, Num(2), Num(-1), Frac}

DistanceBodies ==
    {Num(7), Null, Malformed, Obj(<< <<K_paths, Num(1)>> >>)}
    \cup {Obj(<< <<K_hops, h>> >>) : h \in HopsFields}
    \cup {Obj(<< <<K_hops, Num(3)>>, <<K_paths, p>>, <<K_bridges, Num(1)>> >>) :
            p \in PathsFields}

BatchBodies ==
    {Null, Malformed, Arr(<<>>), Arr(<<Num(3)>>), Obj(<<>>),
     Obj(<< <<pkLower, Num(3)>>, <<pkUpper, Null>> >>),
     Obj(<< <<pkLower, Num(HopsLimit + 1)>> >>),
     Obj(<< <<pkLower, Num(1)>>, <<pkNonHex, Num(1)>> >>),
     Obj(<< <<pkShort, Num(5)>> >>)}

ListBodies(key) ==
    {Num(7), Malformed, Obj(<<>>),
     Obj(<< <<key, Null>> >>),
     Obj(<< <<key, Arr(<<>>)>> >>),
     Obj(<< <<key, Arr(<<Str(pkLower), Str(pkUpper)>>)>> >>),
     Obj(<< <<key, Arr(<<Str(pkLower), Str(pkLong)>>)>> >>),
     Obj(<< <<key, Arr(<<Num(1)>>)>> >>)}

PathBodies ==
    {Null, Malformed, Obj(<<>>),
     Obj(<< <<K_path, Null>> >>),
     Obj(<< <<K_path, Str(pkLower)>> >>),
     Obj(<< <<K_path, Arr(<<Str(pkLower), Str(pkUpper)>>)>> >>),
     Obj(<< <<K_path, Arr(<<Str(pkNonHex)>>)>> >>)}

StatsBodies == {Num(7), Malformed, Obj(<< <<K_hops, Num(-1)>> >>)}

\* the bodies the transport can hold for the endpoint of method m
Bodies(m) ==
    CASE m \in {"getDistance", "getDistanceInfo"} -> DistanceBodies
      [] m = "getDistanceBatch" -> BatchBodies
      [] m = "getFollows" -> ListBodies(K_follows)
      [] m = "getCommonFollows" -> ListBodies(K_common)
      [] m = "getPath" -> PathBodies
      [] OTHER -> StatsBodies

-----------------------------------------------------------------------------
(* The calls.  The reactions to a settled promise are microtasks: the     *)
(* caller that awaits a call takes its result (Collect) before the event   *)
(* loop delivers another transport event or runs another caller.           *)

Calls == 1..NumCalls

ClientInit ==
    /\ op = [c \in Calls |-> "none"]
    /\ pc = [c \in Calls |-> "idle"]
    /\ res = [c \in Calls |-> NoResponse]
    /\ body = [c \in Calls |-> Undefined]
    /\ outcome = [c \in Calls |-> Pending]
    /\ yields = [c \in Calls |-> 0]
    /\ decoded = [c \in Calls |-> FALSE]

\* no settled call is waiting for its caller
Drained == \A c \in Calls : pc[c] # "done"

\* A caller calls method m: the method runs up to await fetch(...) and yields.
Call(c, m) ==
    /\ Drained
    /\ pc[c] = "idle"
    /\ op' = [op EXCEPT ![c] = m]
    /\ pc' = [pc EXCEPT ![c] = "fetch"]
    /\ yields' = [yields EXCEPT ![c] = 1]
    /\ UNCHANGED <<res, body, outcome, decoded>>

\* fetch rejects: the await throws.
FetchRejects(c) ==
    /\ Drained
    /\ pc[c] = "fetch"
    /\ res' = [res EXCEPT ![c] = Rejected]
    /\ outcome' = [outcome EXCEPT ![c] = afterReject(op[c])]
    /\ pc' = [pc EXCEPT ![c] = "done"]
    /\ UNCHANGED <<op, body, yields, decoded>>

\* fetch resolves with a response of some status: the method runs on to its
\* return or throw, or calls res.json() and yields again.
FetchResolves(c, status) ==
    /\ Drained
    /\ pc[c] = "fetch"
    /\ res' = [res EXCEPT ![c] = Response(status)]
    /\ IF afterFetch(op[c], Response(status)).kind = "await"
       THEN /\ pc' = [pc EXCEPT ![c] = "json"]
            /\ decoded' = [decoded EXCEPT ![c] = TRUE]
            /\ yields' = [yields EXCEPT ![c] = @ + 1]
            /\ UNCHANGED outcome
       ELSE /\ pc' = [pc EXCEPT ![c] = "done"]
            /\ outcome' = [outcome EXCEPT ![c] = afterFetch(op[c], Response(status))]
            /\ UNCHANGED <<decoded, yields>>
    /\ UNCHANGED <<op, body>>

\* res.json() settles, with the decoded body or with a rejection.
JsonSettles(c, data) ==
    /\ Drained
    /\ pc[c] = "json"
    /\ body' = [body EXCEPT ![c] = data]
    /\ outcome' = [outcome EXCEPT ![c] = afterJson(op[c], data)]
    /\ pc' = [pc EXCEPT ![c] = "done"]
    /\ UNCHANGED <<op, res, yields, decoded>>

\* The caller takes the settled promise; the slot is free for another call.
Collect(c) ==
    /\ pc[c] = "done"
    /\ op' = [op EXCEPT ![c] = "none"]
    /\ pc' = [pc EXCEPT ![c] = "idle"]
    /\ res' = [res EXCEPT ![c] = NoResponse]
    /\ body' = [body EXCEPT ![c] = Undefined]
    /\ outcome' = [outcome EXCEPT ![c] = Pending]
    /\ yields' = [yields EXCEPT ![c] = 0]
    /\ decoded' = [decoded EXCEPT ![c] = FALSE]

ScoreIdle ==
    /\ in_hops = Null
    /\ in_paths = Null
    /\ in_scoring = Undefined
    /\ score = 0
    /\ spc = "idle"

Init == ClientInit /\ ScoreIdle

Next ==
    \/ \E c \in Calls, m \in Methods : Call(c, m) /\ UNCHANGED scoreVars
    \/ \E c \in Calls : FetchRejects(c) /\ UNCHANGED scoreVars
    \/ \E c \in Calls, status \in Statuses : FetchResolves(c, status) /\ UNCHANGED scoreVars
    \/ \E c \in Calls : \E data \in Bodies(op[c]) : JsonSettles(c, data) /\ UNCHANGED scoreVars
    \/ \E c \in Calls : Collect(c) /\ UNCHANGED scoreVars

Spec == Init /\ [][Next]_vars

-----------------------------------------------------------------------------
(* Centralized trust score calculation.  Numbers are in hundredths.        *)

\* A value of a scoring configuration: undefined, a number, or a mapping
\* from hop counts to numbers.
CfgVal(k, n, m) == [k |-> k, n |-> n, m |-> m]
CUndef == CfgVal("undefined", 0, <<>>)
CNum(n) == CfgVal("number", n, <<>>)
CMap(m) == CfgVal("object", 0, m)

\* The scoring argument; given is FALSE when the caller passes none.
Scoring(w, b, x) ==
    [given |-> TRUE, distanceWeights |-> w, pathBonus |-> b, maxPathBonus |-> x]
NoScoring ==
    [given |-> FALSE, distanceWeights |-> CUndef, pathBonus |-> CUndef,
     maxPathBonus |-> CUndef]

DEFAULT_SCORING_swapped ==
    Scoring(CMap([k \in 1..4 |-> CASE k = 1 -> 100 [] k = 2 -> 50
                                   [] k = 3 -> 10 [] k = 4 -> 25]),
            CMap([k \in 2..4 |-> CASE k = 2 -> 15 [] k = 3 -> 10 [] k = 4 -> 5]),
            CNum(50))

DEFAULT_SCORING ==
    Scoring(CMap([k \in 1..4 |-> CASE k = 1 -> 100 [] k = 2 -> 50
                                   [] k = 3 -> 25 [] k = 4 -> 10]),
            CMap([k \in 2..4 |-> CASE k = 2 -> 15 [] k = 3 -> 10 [] k = 4 -> 5]),
            CNum(50))

Min(a, b) == IF a <= b THEN a ELSE b
Max(a, b) == IF a >= b THEN a ELSE b

\* obj?.[key]: undefined when obj is no mapping or has no such key
Lookup(obj, key) ==
    IF obj.k = "object" /\ key \in DOMAIN obj.m THEN CNum(obj.m[key]) ELSE CUndef

\* a ?? b ?? c, c a number
Resolve(a, b, c) ==
    IF a.k # "undefined" THEN a.n ELSE IF b.k # "undefined" THEN b.n ELSE c

WeightFallback == 10
BonusFallback == 5
LegacyBonusFallback == 10
MaxBonusFallback == 50
MaxHopKey == 4
One == 100

\* Math.min(hops, 4)
hopKeyOf(hops) == Min(hops, MaxHopKey)

\* distanceWeights?.[hopKey] ?? DEFAULT_SCORING.distanceWeights[hopKey] ?? 0.1
baseOf(distanceWeights, hopKey) ==
    Resolve(Lookup(distanceWeights, hopKey),
            Lookup(DEFAULT_SCORING.distanceWeights, hopKey), WeightFallback)

\* the path bonus for this hop level: per hop, or the legacy single value
pathBonusValueOf(pathBonus, hopKey) ==
    IF pathBonus.k = "object"
    THEN Resolve(Lookup(pathBonus, hopKey),
                 Lookup(DEFAULT_SCORING.pathBonus, hopKey), BonusFallback)
    ELSE Resolve(pathBonus, CUndef, LegacyBonusFallback)

bonusOf_uncapped(hops, paths, pathBonus, maxPathBonus) ==
    IF paths.k = "int" /\ paths.n > 1 /\ hops > 1
    THEN pathBonusValueOf(pathBonus, hopKeyOf(hops)) * (paths.n - 1)
    ELSE 0

bonusOf_anyHops(hops, paths, pathBonus, maxPathBonus) ==
    IF paths.k = "int" /\ paths.n > 1
    THEN Min(pathBonusValueOf(pathBonus, hopKeyOf(hops)) * (paths.n - 1),
             Resolve(maxPathBonus, CUndef, MaxBonusFallback))
    ELSE 0

\* let bonus = 0; if (paths !== null && paths > 1 && hops > 1) { ... }
bonusOf(hops, paths, pathBonus, maxPathBonus) ==
    IF paths.k = "int" /\ paths.n > 1 /\ hops > 1
    THEN Min(pathBonusValueOf(pathBonus, hopKeyOf(hops)) * (paths.n - 1),
             Resolve(maxPathBonus, CUndef, MaxBonusFallback))
    ELSE 0

clamp_lowerOnly(x) == Max(x, 0)

\* Math.min(Math.max(score, 0), 1)
clamp(x) == Min(Max(x, 0), One)

\* hops and paths are JavaScript values (null or an integer); scoring
\* defaults to DEFAULT_SCORING when the caller passes none.
calculateScore(hops, paths, scoring) ==
    LET cfg == IF scoring.given THEN scoring ELSE DEFAULT_SCORING
    IN  IF hops.k = "int" /\ hops.n = 0 THEN One
        ELSE IF hops.k \in {"null", "undefined"} THEN 0
        ELSE clamp(baseOf(cfg.distanceWeights, hopKeyOf(hops.n))
                   + bonusOf(hops.n, paths, cfg.pathBonus, cfg.maxPathBonus))

-----------------------------------------------------------------------------
(* The inputs calculateScore is applied to *)

WeightValues == {0, 60, 100}
BonusValues == {20, 100}
LegacyBonusValues == {-20, 20, 100}
MaxBonusValues == {0, 30, 100}

\* mappings over some of the keys, all of them to the same value
PartialMaps(keys, values) ==
    {CMap([k \in d |-> v]) : d \in SUBSET keys, v \in values}

Scorings ==
    {NoScoring, DEFAULT_SCORING}
    \cup {Scoring(w, b, x) :
            w \in {CUndef} \cup PartialMaps(1..4, WeightValues),
            b \in {CUndef} \cup {CNum(n) : n \in LegacyBonusValues}
                  \cup PartialMaps(2..4, BonusValues),
            x \in {CUndef} \cup {CNum(n) : n \in MaxBonusValues}}

ScoreInit ==
    /\ ClientInit
    /\ in_hops \in {Null} \cup {Num(h) : h \in 0..MaxHops}
    /\ in_paths \in {Null} \cup {Num(n) : n \in 0..MaxPaths}
    /\ in_scoring \in Scorings
    /\ score = 0
    /\ spc = "call"

Calculate ==
    /\ spc = "call"
    /\ score' = calculateScore(in_hops, in_paths, in_scoring)
    /\ spc' = "done"
    /\ UNCHANGED <<in_hops, in_paths, in_scoring>>

ScoreNext == Calculate /\ UNCHANGED clientVars

ScoreSpec == ScoreInit /\ [][ScoreNext]_vars

-----------------------------------------------------------------------------
(* Properties of the RemoteOracle operations *)

Validated == {"getDistance", "getDistanceInfo", "getDistanceBatch",
              "getFollows", "getCommonFollows", "getPath"}
NotFoundAsEmpty == {"getDistance", "getDistanceInfo", "getFollows",
                    "getCommonFollows", "getPath"}

\* The shape rules of the endpoints, as the data model states them.
HopsShape(v) == v = Null \/ (v.k = "int" /\ v.n \in 0..100)
PathsShape(v) == v \in {Null, Undefined} \/ (v.k = "int" /\ v.n \in Nat)
IdentityShape(v) ==
    /\ v.k = "string"
    /\ Len(v.s) = 64
    /\ \A i \in 1..Len(v.s) : v.s[i] \in HexChars
IdentityList(v) == v.k = "array" /\ \A i \in 1..Len(v.e) : IdentityShape(v.e[i])
DistanceInfoShape(v) ==
    /\ v.k \in {"object", "array"}
    /\ HopsShape(Get(v, K_hops))
    /\ PathsShape(Get(v, K_paths))
BatchShape(v) ==
    /\ v.k \in {"object", "array"}
    /\ \A i \in 1..Len(Entries(v)) :
          IdentityShape(Str(Entries(v)[i][1])) /\ HopsShape(Entries(v)[i][2])

\* the decoded body satisfies the shape rules of the method's endpoint
BodyShape(m, data) ==
    CASE m \in {"getDistance", "getDistanceInfo"} -> DistanceInfoShape(data)
      [] m = "getDistanceBatch" -> BatchShape(data)
      [] m = "getFollows" -> IdentityList(Get(data, K_follows))
      [] m = "getCommonFollows" -> IdentityList(Get(data, K_common))
      [] m = "getPath" ->
            data.k = "object" /\ \E i \in 1..Len(data.e) : data.e[i][1] = K_path
            /\ (Get(data, K_path) = Null \/ IdentityList(Get(data, K_path)))
      [] OTHER -> TRUE

\* the returned value satisfies the shape rules of the method's result
ResultShape(m, v) ==
    CASE m = "getDistance" -> HopsShape(v)
      [] m = "getDistanceInfo" -> DistanceInfoShape(v)
      [] m = "getDistanceBatch" -> BatchShape(v)
      [] m \in {"getFollows", "getCommonFollows"} -> IdentityList(v)
      [] m = "getPath" -> v = Null \/ IdentityList(v)
      [] OTHER -> TRUE

\* the part of the body the method hands out, nothing coerced or dropped
ResultOf(m, data) ==
    CASE m = "getDistance" -> Get(data, K_hops)
      [] m = "getFollows" -> Get(data, K_follows)
      [] m = "getCommonFollows" -> Get(data, K_common)
      [] m = "getPath" -> Get(data, K_path)
      [] OTHER -> data

Completed(c) == pc[c] = "done"
Answered(c) == Completed(c) /\ res[c].state = "fulfilled"
Answered2xx(c) == Answered(c) /\ res[c].status \in 200..299

\* C1: on a 2xx response each validated operation either fails or returns a
\* value that satisfies the shape rules of its endpoint and is the body's own
\* part; a decoded body that breaks a rule is rejected as a whole with a
\* validation error (a body that is no JSON fails in the decoding).
C1_ValidatedOrRejected ==
    \A c \in Calls :
        (Answered2xx(c) /\ op[c] \in Validated) =>
            /\ outcome[c].kind \in {"value", "error"}
            /\ outcome[c].kind = "value" =>
                  /\ ResultShape(op[c], outcome[c].value)
                  /\ outcome[c].value = ResultOf(op[c], body[c])
            /\ (body[c] # Malformed /\ ~BodyShape(op[c], body[c])) =>
                  (outcome[c].kind = "error" /\ outcome[c].err = "validation")
            /\ body[c] = Malformed =>
                  (outcome[c].kind = "error" /\ outcome[c].err = "decode")

\* a batch body with one valid and one invalid entry was rejected
C1_Witness ==
    \E c \in Calls :
        /\ Answered2xx(c) /\ op[c] = "getDistanceBatch"
        /\ body[c].k = "object" /\ Len(body[c].e) = 2
        /\ outcome[c].kind = "error" /\ outcome[c].err = "validation"

\* C2: on a 404 getDistance, getDistanceInfo and getPath return null,
\* getFollows and getCommonFollows return an empty array; none throws and
\* none decodes or validates the body.
C2_NotFoundIsEmpty ==
    \A c \in Calls :
        (Answered(c) /\ res[c].status = 404 /\ op[c] \in NotFoundAsEmpty) =>
            /\ outcome[c].kind = "value"
            /\ outcome[c].value =
                  IF op[c] \in {"getFollows", "getCommonFollows"} THEN Arr(<<>>) ELSE Null
            /\ ~decoded[c]
            /\ body[c] = Undefined
            /\ yields[c] = 1

C2_Witness ==
    \E c \in Calls :
        /\ Answered(c) /\ res[c].status = 404 /\ op[c] = "getFollows"
        /\ outcome[c] = Return(Arr(<<>>))

\* C3: for every operation but isHealthy a non-2xx status that is not a
\* translated 404 makes the operation fail with an error carrying the status;
\* no value is returned.
C3_StatusErrorCarriesStatus ==
    \A c \in Calls :
        (/\ Answered(c) /\ res[c].status \notin 200..299
         /\ op[c] # "isHealthy"
         /\ ~(res[c].status = 404 /\ op[c] \in NotFoundAsEmpty)) =>
            /\ outcome[c].kind = "error"
            /\ outcome[c].err = "oracle"
            /\ outcome[c].status = res[c].status
            /\ outcome[c].value = Undefined

C3_Witness ==
    \E c \in Calls :
        /\ Answered(c) /\ res[c].status = 404 /\ op[c] = "getDistanceBatch"
        /\ outcome[c].kind = "error" /\ outcome[c].status = 404

\* C4: isHealthy never throws; it returns true exactly when fetch resolved
\* with a 2xx status and false for every other outcome.
C4_IsHealthyNeverThrows ==
    \A c \in Calls :
        op[c] = "isHealthy" =>
            /\ outcome[c].kind # "error"
            /\ Completed(c) =>
                  /\ outcome[c].kind = "value"
                  /\ outcome[c].value =
                        Bool(res[c].state = "fulfilled" /\ res[c].status \in 200..299)

C4_Witness ==
    \E c \in Calls :
        /\ Completed(c) /\ op[c] = "isHealthy" /\ res[c].state = "rejected"
        /\ outcome[c] = Return(Bool(FALSE))

\* C9 as stated: every operation yields exactly once between its call and
\* its completion, on every path.
C9_YieldsExactlyOnce ==
    \A c \in Calls : Completed(c) => yields[c] = 1

\* C9 as amended: an operation yields once, at await fetch, when fetch
\* rejects, when the status is not 2xx, and always in isHealthy; on a 2xx
\* response every other operation yields a second time, at res.json().
C9_YieldsOncePerAwait ==
    \A c \in Calls :
        /\ pc[c] = "fetch" => yields[c] = 1
        /\ pc[c] = "json" => yields[c] = 2
        /\ Completed(c) =>
              yields[c] = IF Answered2xx(c) /\ op[c] # "isHealthy" THEN 2 ELSE 1

\* one call waits at res.json(), its second await, while another call has
\* been started and waits at fetch
C9_Witness ==
    \E c, d \in Calls :
        /\ c # d
        /\ pc[c] = "json" /\ yields[c] = 2 /\ op[c] = "getDistance"
        /\ pc[d] = "fetch"

-----------------------------------------------------------------------------
(* Properties of calculateScore *)

Scored == spc = "done"
UsedScoring == IF in_scoring.given THEN in_scoring ELSE DEFAULT_SCORING
IsDefault == UsedScoring = DEFAULT_SCORING

\* base(hops, config): the distance weight resolved for min(hops, 4); a
\* null hops counts as 0 there, as Math.min counts it
BaseOfInput ==
    baseOf(UsedScoring.distanceWeights,
           IF in_hops.k = "int" THEN Min(in_hops.n, 4) ELSE 0)
CapOfInput ==
    IF UsedScoring.maxPathBonus.k = "undefined" THEN 50
    ELSE UsedScoring.maxPathBonus.n

\* C5: the score is in [0, 1] for every hops, paths and configuration.
C5_ScoreInUnitInterval ==
    Scored => (score >= 0 /\ score <= 100)

\* base + bonus was above 1 and the score is 1
C5_Witness ==
    /\ Scored /\ in_hops.k = "int" /\ in_hops.n >= 2 /\ score = 100
    /\ BaseOfInput + bonusOf(in_hops.n, in_paths, UsedScoring.pathBonus,
                             UsedScoring.maxPathBonus) > 100

FillMap(v, default) ==
    IF v.k = "undefined" THEN default
    ELSE IF v.k = "object"
    THEN CMap([k \in (DOMAIN v.m) \cup (DOMAIN default.m) |->
                  IF k \in DOMAIN v.m THEN v.m[k] ELSE default.m[k]])
    ELSE v
Fill(scoring) ==
    IF ~scoring.given THEN DEFAULT_SCORING
    ELSE Scoring(FillMap(scoring.distanceWeights, DEFAULT_SCORING.distanceWeights),
                 FillMap(scoring.pathBonus, DEFAULT_SCORING.pathBonus),
                 IF scoring.maxPathBonus.k = "undefined"
                 THEN DEFAULT_SCORING.maxPathBonus ELSE scoring.maxPathBonus)

\* C7: a partial configuration scores as the configuration with each missing
\* key taken from DEFAULT_SCORING.
C7_DefaultsFillMissingKeys ==
    Scored => score = calculateScore(in_hops, in_paths, Fill(in_scoring))

\* C8: under the default configuration, for every paths, the score does not
\* increase from one hop count to the next, from 1 up to 4.
C8_MonotoneDecay ==
    (Scored /\ IsDefault /\ in_hops.k = "int" /\ in_hops.n \in 1..3) =>
        calculateScore(Num(in_hops.n + 1), in_paths, in_scoring) <= score

\* with a path bonus on both sides, 3 hops score less than 2 hops
C8_Witness ==
    /\ Scored /\ IsDefault /\ in_hops = Num(2) /\ in_paths = Num(3)
    /\ score = 80
    /\ calculateScore(Num(3), in_paths, in_scoring) = 45

\* C10 as stated: under the default configuration a target at 2 hops or more
\* scores strictly less than a target at 1 hop with the same paths, and a
\* target at 1 hop gets no path bonus.
C10_RedundancyNeverOffsetsDistance ==
    /\ (Scored /\ IsDefault /\ in_hops.k = "int" /\ in_hops.n >= 2) =>
          score < calculateScore(Num(1), in_paths, in_scoring)
    /\ (Scored /\ in_hops = Num(1)) => score = clamp(BaseOfInput)

\* C10 as amended: under the default configuration a target at 2 hops or
\* more never scores more than a target at 1 hop with the same paths; it
\* scores strictly less at 3 hops or more, and at 2 hops with at most 4
\* paths, and scores the same 1.0 at 2 hops with 5 paths or more.  A target
\* at 1 hop gets no path bonus under any configuration.
C10_RedundancyAtMostOffsetsDistance ==
    /\ (Scored /\ IsDefault /\ in_hops.k = "int" /\ in_hops.n >= 2) =>
          /\ score <= calculateScore(Num(1), in_paths, in_scoring)
          /\ (in_hops.n >= 3 \/ in_paths = Null \/ in_paths.n <= 4) =>
                score < calculateScore(Num(1), in_paths, in_scoring)
          /\ (in_hops.n = 2 /\ in_paths.k = "int" /\ in_paths.n >= 5) =>
                score = calculateScore(Num(1), in_paths, in_scoring)
    /\ (Scored /\ in_hops = Num(1)) => score = clamp(BaseOfInput)

\* 2 hops with 4 paths score 0.95, the most below the score of 1 hop
C10_Witness ==
    /\ Scored /\ IsDefault /\ in_hops = Num(2) /\ in_paths = Num(4)
    /\ score = 95
    /\ calculateScore(Num(1), in_paths, in_scoring) = 100

====
